---- MODULE Spec2Model ----
(***************************************************************************)
(* Model of scalable_engine::Engine (src/scalable_engine/src/lib.rs): a    *)
(* wrapper around a multi-thread Tokio runtime.                            *)
(*                                                                         *)
(*   Engine::new(n)      builds the runtime with n worker threads and      *)
(*                       panics ("failed to build runtime") when it cannot *)
(*   Engine::new_auto    Engine::new(num_cpus::get())                      *)
(*   Engine::run_tasks   runtime.block_on(async { join_all(tasks).await }) *)
(*                       block_on drives the joined future on the CALLING  *)
(*                       thread; join_all polls its elements in index      *)
(*                       order and keeps each output in the element's slot *)
(*   Engine::spawn       runtime.spawn(future): the task is pushed on the  *)
(*                       pool's run queue and a tokio JoinHandle returned  *)
(***************************************************************************)
EXTENDS Naturals, Sequences, FiniteSets

\* ------------------------------------------------------------------ bounds
MaxWorkers == 2      \* largest worker_threads argument tried (0 is tried too)
MaxBatch   == 2      \* longest Vec of tasks handed to run_tasks
MaxSpawn   == 2      \* number of spawn calls over a run
MaxWaits   == 1      \* await points (suspensions) in one task body

MaxDrops   == 1      \* Engines dropped (and replaced by a new one) over a run

Threads == {"main", "second"}       \* OS threads outside the pool that use the Engine
Callers == {"main"}                 \* the thread that drives a single-threaded scenario
Cpus    == 1..MaxWorkers            \* what num_cpus::get() may report (at least 1)
Workers == 1..MaxWorkers            \* candidate pool worker indices
Values  == 1..MaxBatch              \* values a task body may return (T)

\* A task body (the future handed in): it returns val after `waits` await
\* points, or panics at that place instead when `fails` (its val is then
\* never produced, so one val stands for all).
\*   dep   what its await points wait for: 0 = an event from outside (timer,
\*         I/O), i = the completion of element i of the same batch
\*   hangs the event its await points wait for never occurs
\*   nests at its end the body calls run_tasks on the Engine it runs on
Bodies ==
    [val : Values, waits : 0..MaxWaits, fails : {FALSE},
     dep : {0}, hangs : {FALSE}, nests : {FALSE}]
        \cup [val : {1}, waits : 0..MaxWaits, fails : {TRUE},
              dep : {0}, hangs : {FALSE}, nests : {FALSE}]

VARIABLES
    engine,     \* "unbuilt" | "built" | "failed": outcome of Engine::new
    requested,  \* the worker_threads argument Engine::new was called with
    workers,    \* worker_threads of the built runtime
    host,       \* number of logical processors the host reports now
    dropped,    \* the Engines dropped so far: [seen: worker_threads asked, size: workers]
    onWorker,   \* [Workers -> 0..MaxSpawn]: the spawned task a worker is polling, 0 = idle
    spawned,    \* sequence of the tasks given to runtime.spawn, by handle id
    handle,     \* sequence, per spawned task: "held" | "awaiting" | "consumed"
    pc,         \* [Threads -> "idle" | "parked" | "returned" | "joining" | "panicked"]
    batch,      \* [Threads -> sequence of the tasks of the current run_tasks call]
    results,    \* [Threads -> the Vec<T> run_tasks returned]
    doneOrder,  \* [Threads -> indices of the batch in completion order]
    failedAt,   \* [Threads -> index of the batch element that panicked, 0 = none]
    joining,    \* [Threads -> handle id the thread awaits or awaited last, 0 = none]
    got         \* [Threads -> outcome of the last awaited handle]

vars == <<engine, requested, workers, host, dropped, onWorker, spawned, handle, pc, batch,
          results, doneOrder, failedAt, joining, got>>

engineVars == <<engine, requested, workers, host, dropped>>
poolVars   == <<onWorker, spawned, handle>>
batchVars  == <<batch, results, doneOrder, failedAt>>

\* ------------------------------------------------------------- task state
\* Scheduled -> Running -> Completed(value) | Failed(cause)
\* `by` is who polled the task: "caller" (the thread in block_on) or
\* "worker" (a thread of the pool).
NewTask(b) ==
    [val |-> b.val, waits |-> b.waits, fails |-> b.fails,
     dep |-> b.dep, hangs |-> b.hangs, nests |-> b.nests,
     state |-> "Scheduled", woken |-> FALSE, out |-> <<>>, cause |-> "none",
     abort |-> FALSE, by |-> "none"]

Terminal(k) == k.state \in {"Completed", "Failed"}

\* One poll of a task's future. A resumed task (woken) has passed one await
\* point; with none left the body ends: it returns its value or panics.
\* Otherwise the poll is Pending and the task waits for its next event.
\* A body that calls run_tasks there panics in that call: block_on refuses to
\* block a thread that is driving tasks of a runtime.
Poll(k) ==
    LET left == IF k.woken THEN k.waits - 1 ELSE k.waits IN
    IF left = 0
    THEN IF k.fails \/ k.nests
         THEN [k EXCEPT !.waits = 0, !.woken = FALSE, !.state = "Failed",
                        !.cause = "panic"]
         ELSE [k EXCEPT !.waits = 0, !.woken = FALSE, !.state = "Completed",
                        !.out = <<k.val>>]
    ELSE [k EXCEPT !.waits = left, !.woken = FALSE, !.state = "Running"]

NoOutcome == [tag |-> "None", val |-> 0]

Init ==
    /\ engine = "unbuilt"
    /\ requested = 0
    /\ workers = 0
    /\ host = 1
    /\ dropped = <<>>
    /\ onWorker = [w \in Workers |-> 0]
    /\ spawned = <<>>
    /\ handle = <<>>
    /\ pc = [t \in Threads |-> "idle"]
    /\ batch = [t \in Threads |-> <<>>]
    /\ results = [t \in Threads |-> <<>>]
    /\ doneOrder = [t \in Threads |-> <<>>]
    /\ failedAt = [t \in Threads |-> 0]
    /\ joining = [t \in Threads |-> 0]
    /\ got = [t \in Threads |-> NoOutcome]

\* ------------------------------------------------------------ Engine::new
\* Faulty variant of New: a request for zero workers is served with one worker.
NewClampingZero(t, n) ==
    /\ engine = "unbuilt"
    /\ pc[t] = "idle"
    /\ requested' = n
    /\ engine' = "built"
    /\ workers' = IF n >= 1 THEN n ELSE 1
    /\ pc' = pc
    /\ UNCHANGED <<host, dropped, poolVars, batchVars, joining, got>>

\* Builder::new_multi_thread().worker_threads(n).enable_all().build()
\*     .expect("failed to build runtime"): zero workers is refused and the
\* panic unwinds the constructing thread; no Engine value exists then.
New(t, n) ==
    /\ engine = "unbuilt"
    /\ pc[t] = "idle"
    /\ requested' = n
    /\ IF n >= 1
       THEN /\ engine' = "built"
            /\ workers' = n
            /\ pc' = pc
       ELSE /\ engine' = "failed"
            /\ workers' = 0
            /\ pc' = [pc EXCEPT ![t] = "panicked"]
    /\ UNCHANGED <<host, dropped, poolVars, batchVars, joining, got>>

\* Positions from which a thread may call into the Engine.
Callable == {"idle", "returned"}

\* ------------------------------------------------------- Engine::new_auto
\* The host environment changes what it reports (a CPU quota is adjusted).
HostChange(c) ==
    /\ c # host
    /\ host' = c
    /\ UNCHANGED <<engine, requested, workers, dropped, poolVars, batchVars,
                   pc, joining, got>>

\* Faulty variant of NewAuto: the count read by an earlier call is used again.
NewAutoCached(t) ==
    LET cpus == IF requested # 0 THEN requested ELSE host
    IN New(t, cpus)

\* let cpus = num_cpus::get(); Self::new(cpus)
NewAuto(t) ==
    LET cpus == host
    IN New(t, cpus)

\* The Engine goes out of scope before anything was spawned on it; its
\* owner may build another one.
Drop(t) ==
    /\ engine = "built"
    /\ pc[t] \in Callable
    /\ spawned = <<>>
    /\ Len(dropped) < MaxDrops
    /\ dropped' = Append(dropped, [seen |-> requested, size |-> workers])
    /\ engine' = "unbuilt"
    /\ workers' = 0
    /\ pc' = [pc EXCEPT ![t] = "idle"]
    /\ batch' = [batch EXCEPT ![t] = <<>>]
    /\ results' = [results EXCEPT ![t] = <<>>]
    /\ doneOrder' = [doneOrder EXCEPT ![t] = <<>>]
    /\ got' = [got EXCEPT ![t] = NoOutcome]
    /\ UNCHANGED <<requested, host, poolVars, failedAt, joining>>

\* ------------------------------------------------------ Engine::run_tasks

\* Faulty variant of Pass: a panic of an element is caught and recorded in its
\* slot; the pass goes on with the other elements.
RECURSIVE PassCatching(_, _)
PassCatching(p, i) ==
    IF i > Len(p.tasks)
    THEN p
    ELSE LET k == p.tasks[i]
             k2 == [Poll(k) EXCEPT !.by = "caller"]
         IN IF Terminal(k)
            THEN PassCatching(p, i + 1)
            ELSE PassCatching([tasks |-> [p.tasks EXCEPT ![i] = k2],
                               done |-> IF k2.state = "Completed"
                                        THEN Append(p.done, i) ELSE p.done,
                               failed |-> 0],
                              i + 1)

\* Faulty variant of Pass: the elements are awaited one after the other; the pass
\* stops at the first element that is Pending.
RECURSIVE PassInSequence(_, _)
PassInSequence(p, i) ==
    IF i > Len(p.tasks) \/ p.failed # 0
    THEN p
    ELSE LET k == p.tasks[i]
             k2 == [Poll(k) EXCEPT !.by = "caller"]
         IN IF Terminal(k)
            THEN PassInSequence(p, i + 1)
            ELSE LET p2 == [tasks |-> [p.tasks EXCEPT ![i] = k2],
                            done |-> IF k2.state = "Completed"
                                     THEN Append(p.done, i) ELSE p.done,
                            failed |-> IF k2.state = "Failed" THEN i ELSE 0]
                 IN IF Terminal(k2) THEN PassInSequence(p2, i + 1) ELSE p2

\* One poll of the join_all future by the thread inside block_on: the
\* elements whose output is not stored yet are polled in index order, each by
\* the calling thread itself. A panic of an element ends the pass there.
\* p = [tasks, done, failed]; i is the next index, failed the index of the
\* element that panicked (0 = none).
RECURSIVE Pass(_, _)
Pass(p, i) ==
    IF i > Len(p.tasks) \/ p.failed # 0
    THEN p
    ELSE LET k == p.tasks[i]
             k2 == [Poll(k) EXCEPT !.by = "caller"]
         IN IF Terminal(k)
            THEN Pass(p, i + 1)
            ELSE Pass([tasks |-> [p.tasks EXCEPT ![i] = k2],
                       done |-> IF k2.state = "Completed"
                                THEN Append(p.done, i) ELSE p.done,
                       failed |-> IF k2.state = "Failed" THEN i ELSE 0],
                      i + 1)

\* Faulty variant of Collect: the outputs taken in completion order.
CollectInCompletionOrder(p) ==
    [i \in 1..Len(p.tasks) |-> p.tasks[p.done[i]].out[1]]

\* join_all's output: the stored outputs taken in index order.
Collect(p) == [i \in 1..Len(p.tasks) |-> p.tasks[i].out[1]]

\* Faulty variant of AllDone: readiness waits for at least one stored output.
AllDoneOfSome(tasks) ==
    /\ tasks # <<>>
    /\ \A i \in 1..Len(tasks) : tasks[i].state = "Completed"

\* join_all is Ready when every element's output is stored.
AllDone(tasks) == \A i \in 1..Len(tasks) : tasks[i].state = "Completed"

\* Faulty variant of Settle: the call returns as soon as one output is stored, with
\* the outputs stored so far.
SettleOnFirstOutput(t, p) ==
    /\ doneOrder' = [doneOrder EXCEPT ![t] = p.done]
    /\ failedAt' = [failedAt EXCEPT ![t] = p.failed]
    /\ IF p.failed # 0
       THEN /\ pc' = [pc EXCEPT ![t] = "panicked"]
            /\ batch' = [batch EXCEPT ![t] = <<>>]
            /\ results' = [results EXCEPT ![t] = <<>>]
       ELSE IF AllDone(p.tasks) \/ p.done # <<>>
       THEN /\ pc' = [pc EXCEPT ![t] = "returned"]
            /\ batch' = [batch EXCEPT ![t] = p.tasks]
            /\ results' = [results EXCEPT ![t] =
                               [i \in 1..Len(p.done) |-> p.tasks[p.done[i]].out[1]]]
       ELSE /\ pc' = [pc EXCEPT ![t] = "parked"]
            /\ batch' = [batch EXCEPT ![t] = p.tasks]
            /\ results' = [results EXCEPT ![t] = <<>>]

\* Faulty variant of Settle: the panic of a batch task poisons the runtime; every
\* thread blocked in run_tasks is unwound with the caller.
SettlePoisoning(t, p) ==
    /\ doneOrder' = [doneOrder EXCEPT ![t] = p.done]
    /\ failedAt' = [failedAt EXCEPT ![t] = p.failed]
    /\ IF p.failed # 0
       THEN /\ pc' = [u \in Threads |->
                         IF u = t \/ pc[u] = "parked" THEN "panicked" ELSE pc[u]]
            /\ batch' = [u \in Threads |->
                            IF u = t \/ pc[u] = "parked" THEN <<>> ELSE batch[u]]
            /\ results' = [results EXCEPT ![t] = <<>>]
       ELSE IF AllDone(p.tasks)
       THEN /\ pc' = [pc EXCEPT ![t] = "returned"]
            /\ batch' = [batch EXCEPT ![t] = p.tasks]
            /\ results' = [results EXCEPT ![t] = Collect(p)]
       ELSE /\ pc' = [pc EXCEPT ![t] = "parked"]
            /\ batch' = [batch EXCEPT ![t] = p.tasks]
            /\ results' = [results EXCEPT ![t] = <<>>]

\* What block_on does with the outcome of a pass.
\*  - a panic raised by an element unwinds through join_all and block_on
\*    into the caller of run_tasks: the thread is gone and the joined future
\*    is dropped with the elements' slots (the outputs produced so far);
\*    doneOrder keeps which elements had completed;
\*  - with every output stored join_all is Ready and run_tasks returns the Vec;
\*  - otherwise join_all is Pending and block_on parks the calling thread.
Settle(t, p) ==
    /\ doneOrder' = [doneOrder EXCEPT ![t] = p.done]
    /\ failedAt' = [failedAt EXCEPT ![t] = p.failed]
    /\ IF p.failed # 0
       THEN /\ pc' = [pc EXCEPT ![t] = "panicked"]
            /\ batch' = [batch EXCEPT ![t] = <<>>]
            /\ results' = [results EXCEPT ![t] = <<>>]
       ELSE IF AllDone(p.tasks)
       THEN /\ pc' = [pc EXCEPT ![t] = "returned"]
            /\ batch' = [batch EXCEPT ![t] = p.tasks]
            /\ results' = [results EXCEPT ![t] = Collect(p)]
       ELSE /\ pc' = [pc EXCEPT ![t] = "parked"]
            /\ batch' = [batch EXCEPT ![t] = p.tasks]
            /\ results' = [results EXCEPT ![t] = <<>>]

\* self.runtime.block_on(async { join_all(tasks).await }): the calling
\* thread enters block_on and polls the joined future a first time.
RunTasks(t, tasks) ==
    /\ engine = "built"
    /\ pc[t] \in Callable
    /\ Settle(t, Pass([tasks |-> [i \in 1..Len(tasks) |-> NewTask(tasks[i])],
                       done |-> <<>>, failed |-> 0], 1))
    /\ joining' = [joining EXCEPT ![t] = 0]
    /\ got' = [got EXCEPT ![t] = NoOutcome]
    /\ UNCHANGED <<engineVars, poolVars>>

\* What element i of a batch awaits can occur: an event from outside comes
\* by itself, the event a sibling produces when that sibling has completed,
\* and the event of a hanging body never.
CanOccur(tasks, i) ==
    /\ ~tasks[i].hangs
    /\ \/ tasks[i].dep = 0
       \/ /\ tasks[i].dep \in 1..Len(tasks)
          /\ tasks[tasks[i].dep].state = "Completed"

\* The event a suspended element of the batch awaits (timer, I/O, a sibling's
\* message) occurs and its waker is notified.
BatchEvent(t, i) ==
    /\ pc[t] = "parked"
    /\ i \in 1..Len(batch[t])
    /\ batch[t][i].state = "Running"
    /\ ~batch[t][i].woken
    /\ CanOccur(batch[t], i)
    /\ batch' = [batch EXCEPT ![t][i].woken = TRUE]
    /\ UNCHANGED <<engineVars, poolVars, pc, results, doneOrder, failedAt,
                   joining, got>>

\* A notified waker unparks the thread in block_on; it polls join_all again.
Resume(t) ==
    /\ pc[t] = "parked"
    /\ \E i \in 1..Len(batch[t]) : batch[t][i].woken
    /\ \E p \in {Pass([tasks |-> batch[t], done |-> doneOrder[t],
                        failed |-> 0], 1)} : Settle(t, p)
    /\ UNCHANGED <<engineVars, poolVars, joining, got>>

\* The caller goes on to its next call: the values the previous call
\* returned go out of scope.
Leave(t) ==
    /\ batch' = [batch EXCEPT ![t] = <<>>]
    /\ results' = [results EXCEPT ![t] = <<>>]
    /\ doneOrder' = [doneOrder EXCEPT ![t] = <<>>]
    /\ failedAt' = failedAt
    /\ got' = [got EXCEPT ![t] = NoOutcome]

\* ---------------------------------------------------------- Engine::spawn
\* Faulty variant of Spawn: the call waits for a free worker before it returns.
SpawnWhenWorkerFree(t, b) ==
    /\ engine = "built"
    /\ pc[t] \in Callable
    /\ Len(spawned) < MaxSpawn
    /\ \E w \in Workers : w <= workers /\ onWorker[w] = 0
    /\ spawned' = Append(spawned, NewTask(b))
    /\ handle' = Append(handle, "held")
    /\ pc' = [pc EXCEPT ![t] = "idle"]
    /\ joining' = [joining EXCEPT ![t] = 0]
    /\ Leave(t)
    /\ UNCHANGED <<engineVars, onWorker>>

\* self.runtime.spawn(future): the task is pushed on the pool's run queue and
\* the JoinHandle is returned at once; nothing is awaited here.
Spawn(t, b) ==
    /\ engine = "built"
    /\ pc[t] \in Callable
    /\ Len(spawned) < MaxSpawn
    /\ spawned' = Append(spawned, NewTask(b))
    /\ handle' = Append(handle, "held")
    /\ pc' = [pc EXCEPT ![t] = "idle"]
    /\ joining' = [joining EXCEPT ![t] = 0]
    /\ Leave(t)
    /\ UNCHANGED <<engineVars, onWorker>>

Handles == 1..Len(spawned)

OnSomeWorker(s) == \E w \in Workers : onWorker[w] = s

\* Faulty variant of Runnable: a task that panicked is queued again (a retry).
RunnableWithRetry(s) ==
    /\ ~OnSomeWorker(s)
    /\ \/ spawned[s].state = "Scheduled"
       \/ spawned[s].state = "Running" /\ spawned[s].woken
       \/ spawned[s].state = "Failed" /\ spawned[s].cause = "panic"

\* Faulty variant of Runnable: a woken task is not queued again (a lost wakeup).
RunnableOnlyWhenNew(s) ==
    /\ ~OnSomeWorker(s)
    /\ spawned[s].state = "Scheduled"

\* In the run queue: never polled yet, or suspended and woken since.
Runnable(s) ==
    /\ ~OnSomeWorker(s)
    /\ \/ spawned[s].state = "Scheduled"
       \/ spawned[s].state = "Running" /\ spawned[s].woken

\* Faulty variant of StartPoll: the workers serve the run queue only while no
\* thread is blocked in run_tasks.
StartPollWhenNoBatch(w, s) ==
    /\ w <= workers
    /\ onWorker[w] = 0
    /\ s \in Handles
    /\ Runnable(s)
    /\ \A t \in Threads : pc[t] # "parked"
    /\ onWorker' = [onWorker EXCEPT ![w] = s]
    /\ spawned' = [spawned EXCEPT ![s].state = "Running", ![s].by = "worker"]
    /\ UNCHANGED <<engineVars, handle, pc, batchVars, joining, got>>

\* A free worker of the pool takes a task from the run queue.
StartPoll(w, s) ==
    /\ w <= workers
    /\ onWorker[w] = 0
    /\ s \in Handles
    /\ Runnable(s)
    /\ onWorker' = [onWorker EXCEPT ![w] = s]
    /\ spawned' = [spawned EXCEPT ![s].state = "Running", ![s].by = "worker"]
    /\ UNCHANGED <<engineVars, handle, pc, batchVars, joining, got>>

\* The outcome a worker stores for a polled task. The runtime catches a
\* panic of the task's future and keeps it for the JoinHandle; a task whose
\* JoinHandle asked for abort is dropped instead of being suspended again.
Harness(k) ==
    LET k2 == Poll(k) IN
    IF ~Terminal(k2) /\ k.abort
    THEN [k2 EXCEPT !.state = "Failed", !.cause = "cancelled"]
    ELSE k2

\* Faulty variant of FinishPoll: a worker whose task has called run_tasks stays in
\* that call, which waits for the nested batch.
FinishPollBlockedInNested(w) ==
    /\ w <= workers
    /\ onWorker[w] # 0
    /\ ~(spawned[onWorker[w]].nests /\ Terminal(Poll(spawned[onWorker[w]])))
    /\ spawned' = [spawned EXCEPT ![onWorker[w]] = Harness(@)]
    /\ onWorker' = [onWorker EXCEPT ![w] = 0]
    /\ UNCHANGED <<engineVars, handle, pc, batchVars, joining, got>>

\* Faulty variant of FinishPoll: the panic of a task takes its worker thread with
\* it; the worker is never free again.
FinishPollLosingWorker(w) ==
    /\ w <= workers
    /\ onWorker[w] # 0
    /\ ~Terminal(spawned[onWorker[w]])
    /\ spawned' = [spawned EXCEPT ![onWorker[w]] = Harness(@)]
    /\ onWorker' = IF Harness(spawned[onWorker[w]]).cause = "panic"
                   THEN onWorker
                   ELSE [onWorker EXCEPT ![w] = 0]
    /\ UNCHANGED <<engineVars, handle, pc, batchVars, joining, got>>

\* The worker ends the poll and is free again, whatever the outcome.
FinishPoll(w) ==
    /\ w <= workers
    /\ onWorker[w] # 0
    /\ spawned' = [spawned EXCEPT ![onWorker[w]] = Harness(@)]
    /\ onWorker' = [onWorker EXCEPT ![w] = 0]
    /\ UNCHANGED <<engineVars, handle, pc, batchVars, joining, got>>

\* The event a suspended spawned task awaits occurs; the task is runnable.
SpawnEvent(s) ==
    /\ s \in Handles
    /\ ~OnSomeWorker(s)
    /\ spawned[s].state = "Running"
    /\ ~spawned[s].woken
    /\ ~spawned[s].hangs
    /\ spawned' = [spawned EXCEPT ![s].woken = TRUE]
    /\ UNCHANGED <<engineVars, onWorker, handle, pc, batchVars, joining, got>>

\* ------------------------------------------- tokio::task::JoinHandle<T>
\* Faulty variant of JoinOutcome: a failed task is reported as a success carrying a
\* default value.
JoinOutcomeOrDefault(k) ==
    IF k.state = "Completed"
    THEN [tag |-> "Ok", val |-> k.out[1]]
    ELSE [tag |-> "Ok", val |-> 1]

\* What awaiting a JoinHandle yields: Result<T, JoinError>.
JoinOutcome(k) ==
    IF k.state = "Completed"
    THEN [tag |-> "Ok", val |-> k.out[1]]
    ELSE [tag |-> "Err", val |-> 0]

\* The owner starts to await the handle (the handle is moved into the wait).
AwaitHandle(t, h) ==
    /\ pc[t] \in Callable
    /\ h \in Handles
    /\ handle[h] = "held"
    /\ pc' = [pc EXCEPT ![t] = "joining"]
    /\ joining' = [joining EXCEPT ![t] = h]
    /\ handle' = [handle EXCEPT ![h] = "awaiting"]
    /\ Leave(t)
    /\ UNCHANGED <<engineVars, onWorker, spawned>>

\* The awaited task has ended: the wait yields its outcome to the waiter,
\* which goes on.
JoinReturn(t) ==
    /\ pc[t] = "joining"
    /\ Terminal(spawned[joining[t]])
    /\ got' = [got EXCEPT ![t] = JoinOutcome(spawned[joining[t]])]
    /\ pc' = [pc EXCEPT ![t] = "idle"]
    /\ handle' = [handle EXCEPT ![joining[t]] = "consumed"]
    /\ UNCHANGED <<engineVars, onWorker, spawned, batchVars, joining>>

\* JoinHandle::abort on a task that has not ended: a task off the workers is
\* cancelled, one being polled is cancelled when that poll ends Pending.
Abort(t, h) ==
    /\ pc[t] \in Callable
    /\ h \in Handles
    /\ handle[h] = "held"
    /\ ~Terminal(spawned[h])
    /\ ~spawned[h].abort
    /\ spawned' = [spawned EXCEPT ![h] =
                      IF OnSomeWorker(h)
                      THEN [@ EXCEPT !.abort = TRUE]
                      ELSE [@ EXCEPT !.abort = TRUE, !.state = "Failed",
                                     !.cause = "cancelled"]]
    /\ pc' = [pc EXCEPT ![t] = "idle"]
    /\ joining' = [joining EXCEPT ![t] = 0]
    /\ Leave(t)
    /\ UNCHANGED <<engineVars, onWorker, handle>>

\* --------------------------------------------------------- specifications
\* Batches a caller may submit: every Vec of at most n task bodies.
BatchesUpTo(n) == UNION {[1..m -> Bodies] : m \in 0..n}
Batches == BatchesUpTo(MaxBatch)

\* The steps of the pool and of the awaited events: the same in every
\* specification.
PoolNext ==
    \/ \E w \in Workers : \E s \in 1..MaxSpawn : StartPoll(w, s)
    \/ \E w \in Workers : FinishPoll(w)
    \/ \E s \in 1..MaxSpawn : SpawnEvent(s)
    \/ \E t \in Threads : \E i \in 1..MaxBatch : BatchEvent(t, i)
    \/ \E t \in Threads : Resume(t)
    \/ \E t \in Threads : JoinReturn(t)

\* Spec: every batch of at most MaxBatch bodies is submitted, beside spawned
\* tasks that return the first value (at once or after their await points)
\* or panic at once.
SideBodies == {b \in Bodies : b.val = 1 /\ (b.fails => b.waits = 0)}

Next ==
    \/ \E t \in Callers : \E n \in 0..MaxWorkers : New(t, n)
    \/ \E t \in Callers : \E tasks \in Batches : RunTasks(t, tasks)
    \/ \E t \in Callers : \E b \in SideBodies : Spawn(t, b)
    \/ \E t \in Callers : \E h \in 1..MaxSpawn : AwaitHandle(t, h)
    \/ \E t \in Callers : \E h \in 1..MaxSpawn : Abort(t, h)
    \/ PoolNext

Spec == Init /\ [][Next]_vars

\* PoolSpec: every body is spawned, beside batches of at most one task.
PoolSpecNext ==
    \/ \E t \in Callers : \E n \in 0..MaxWorkers : New(t, n)
    \/ \E t \in Callers : \E tasks \in BatchesUpTo(1) : RunTasks(t, tasks)
    \/ \E t \in Callers : \E b \in Bodies : Spawn(t, b)
    \/ \E t \in Callers : \E h \in 1..MaxSpawn : AwaitHandle(t, h)
    \/ \E t \in Callers : \E h \in 1..MaxSpawn : Abort(t, h)
    \/ PoolNext

PoolSpec == Init /\ [][PoolSpecNext]_vars

\* FairPoolSpec: PoolSpec with the scheduling the runtime provides: a free
\* worker takes a task that stays in the run queue, a poll ends, and the
\* event a terminating task awaits occurs.
FairPoolSpec ==
    /\ PoolSpec
    /\ \A s \in 1..MaxSpawn : WF_vars(\E w \in Workers : StartPoll(w, s))
    /\ \A w \in Workers : WF_vars(FinishPoll(w))
    /\ \A s \in 1..MaxSpawn : WF_vars(SpawnEvent(s))

\* BatchSpec: batches whose tasks may wait for one another (also in a
\* circle, or for a sibling that is not there), nothing spawned.
DepBodies ==
    {b \in [val : Values, waits : 0..MaxWaits, fails : BOOLEAN,
            dep : 0..MaxBatch, hangs : {FALSE}, nests : {FALSE}] :
        /\ b.fails => b.val = 1
        /\ b.waits = 0 => b.dep = 0}

DepBatches == UNION {[1..m -> DepBodies] : m \in 0..MaxBatch}

BatchNext ==
    \/ \E t \in Callers : \E n \in 0..MaxWorkers : New(t, n)
    \/ \E t \in Callers : \E tasks \in DepBatches : RunTasks(t, tasks)
    \/ \E t \in Callers : \E i \in 1..MaxBatch : BatchEvent(t, i)
    \/ \E t \in Callers : Resume(t)

BatchSpec == Init /\ [][BatchNext]_vars

\* FairBatchSpec: an event that can occur does occur, and a thread whose
\* waker was notified is unparked.
FairBatchSpec ==
    /\ BatchSpec
    /\ \A t \in Threads : \A i \in 1..MaxBatch : WF_vars(BatchEvent(t, i))
    /\ \A t \in Threads : WF_vars(Resume(t))

\* ConcSpec: the Engine built by one thread is shared by reference; every
\* thread calls run_tasks on it with every batch, at any time.
ConcNext ==
    \/ \E t \in Callers : \E n \in 0..MaxWorkers : New(t, n)
    \/ \E t \in Threads : \E tasks \in Batches : RunTasks(t, tasks)
    \/ \E t \in Threads : \E i \in 1..MaxBatch : BatchEvent(t, i)
    \/ \E t \in Threads : Resume(t)

ConcSpec == Init /\ [][ConcNext]_vars

FairConcSpec ==
    /\ ConcSpec
    /\ \A t \in Threads : \A i \in 1..MaxBatch : WF_vars(BatchEvent(t, i))
    /\ \A t \in Threads : WF_vars(Resume(t))

\* MixSpec: tasks that may wait for ever are spawned and run in batches of
\* at most one task; no handle is awaited or aborted.
MixBodies ==
    {b \in [val : {1}, waits : 0..MaxWaits, fails : BOOLEAN,
            dep : {0}, hangs : BOOLEAN, nests : {FALSE}] :
        b.hangs => (b.waits >= 1 /\ ~b.fails)}

MixNext ==
    \/ \E t \in Callers : \E n \in 0..MaxWorkers : New(t, n)
    \/ \E t \in Callers : \E tasks \in UNION {[1..m -> MixBodies] : m \in 0..1} :
          RunTasks(t, tasks)
    \/ \E t \in Callers : \E b \in MixBodies : Spawn(t, b)
    \/ \E w \in Workers : \E s \in 1..MaxSpawn : StartPoll(w, s)
    \/ \E w \in Workers : FinishPoll(w)
    \/ \E s \in 1..MaxSpawn : SpawnEvent(s)
    \/ \E t \in Threads : \E i \in 1..MaxBatch : BatchEvent(t, i)
    \/ \E t \in Threads : Resume(t)

MixSpec == Init /\ [][MixNext]_vars

FairMixSpec ==
    /\ MixSpec
    /\ \A s \in 1..MaxSpawn : WF_vars(\E w \in Workers : StartPoll(w, s))
    /\ \A w \in Workers : WF_vars(FinishPoll(w))
    /\ \A s \in 1..MaxSpawn : WF_vars(SpawnEvent(s))
    /\ \A t \in Threads : \A i \in 1..MaxBatch : WF_vars(BatchEvent(t, i))
    /\ \A t \in Threads : WF_vars(Resume(t))

\* NestSpec: tasks that call run_tasks on their own Engine are spawned and
\* run in batches of at most one task; handles are awaited.
NestBodies ==
    [val : {1}, waits : 0..MaxWaits, fails : {FALSE},
     dep : {0}, hangs : {FALSE}, nests : BOOLEAN]

NestNext ==
    \/ \E t \in Callers : \E n \in 0..MaxWorkers : New(t, n)
    \/ \E t \in Callers : \E tasks \in UNION {[1..m -> NestBodies] : m \in 0..1} :
          RunTasks(t, tasks)
    \/ \E t \in Callers : \E b \in NestBodies : Spawn(t, b)
    \/ \E t \in Callers : \E h \in 1..MaxSpawn : AwaitHandle(t, h)
    \/ PoolNext

NestSpec == Init /\ [][NestNext]_vars

\* AutoSpec: Engines are built by new_auto only, while the host changes what
\* it reports; batches of at most one task are run on them.
AutoNext ==
    \/ \E c \in Cpus : HostChange(c)
    \/ \E t \in Callers : NewAuto(t)
    \/ \E t \in Callers : Drop(t)
    \/ \E t \in Callers : \E tasks \in BatchesUpTo(1) : RunTasks(t, tasks)
    \/ \E t \in Callers : \E i \in 1..MaxBatch : BatchEvent(t, i)
    \/ \E t \in Callers : Resume(t)

AutoSpec == Init /\ [][AutoNext]_vars

\* ----------------------------------------------------------------- claims
InputVals(t) == [i \in 1..Len(batch[t]) |-> batch[t][i].val]

\* C1: whenever run_tasks has returned, for a batch of any length 0..MaxBatch
\* and whatever the order in which its tasks completed, the returned Vec has
\* at position i the value task i was written to return; a batch whose task
\* at position i returns i yields <<1, ..., k>>.
C1_ResultsInInputOrder ==
    \A t \in Threads :
        pc[t] = "returned" =>
            /\ results[t] = InputVals(t)
            /\ (\A i \in 1..Len(batch[t]) : batch[t][i].val = i)
                   => results[t] = [i \in 1..Len(batch[t]) |-> i]

\* C1 witness: a batch of two tasks returning different values, of which the
\* second completed first, has returned.
C1_Witness ==
    \E t \in Threads :
        /\ pc[t] = "returned"
        /\ doneOrder[t] = <<2, 1>>
        /\ results[t] = <<1, 2>>
        /\ workers = 1

\* C2: run_tasks has returned only when every task of its batch is Completed
\* with its output stored, and the Vec has as many elements as the batch;
\* while some task has no output yet the caller holds no result.
C2_ReturnsOnlyWhenAllCompleted ==
    \A t \in Threads :
        /\ pc[t] = "returned" =>
              /\ \A i \in 1..Len(batch[t]) :
                     batch[t][i].state = "Completed" /\ batch[t][i].out # <<>>
              /\ Len(results[t]) = Len(batch[t])
        /\ (\E i \in 1..Len(batch[t]) : batch[t][i].state # "Completed")
              => pc[t] = "parked" /\ results[t] = <<>>

\* C2 witness: the caller is blocked in run_tasks with one task of the batch
\* Completed and another still suspended.
C2_Witness ==
    \E t \in Threads :
        /\ pc[t] = "parked"
        /\ \E i, j \in 1..Len(batch[t]) :
              batch[t][i].state = "Completed" /\ batch[t][j].state = "Running"

\* A failed task of a batch is only ever seen with its caller unwound and
\* holding no Vec.
C3_FailureState ==
    \A t \in Threads :
        (failedAt[t] # 0 \/ \E i \in 1..Len(batch[t]) : batch[t][i].state = "Failed")
            => pc[t] = "panicked" /\ results[t] = <<>>

\* C3: once a task of the batch has panicked, the calling thread is unwound
\* (panicked) and holds no result Vec, whatever its siblings had produced;
\* it never comes back from that state and no Vec is ever delivered to it.
C3_PanicPropagates ==
    /\ []C3_FailureState
    /\ [][\A t \in Threads :
              failedAt[t] # 0 => pc'[t] = "panicked" /\ results'[t] = <<>>]_vars

\* C3 witness: a task panicked after a sibling had completed (its output is
\* lost), while another sibling was still to be polled or had completed
\* before.
C3_Witness ==
    \E t \in Threads :
        /\ pc[t] = "panicked"
        /\ failedAt[t] = 1
        /\ doneOrder[t] = <<2>>


\* C4: when the wait on a JoinHandle has ended, the waiter goes on (it is
\* not unwound); a task that completed yields Ok with exactly the value it
\* was written to return, a task that failed yields Err, which no Ok(v) equals.
C4_AwaitYieldsOutcome ==
    \A t \in Threads :
        (joining[t] # 0 /\ pc[t] # "joining") =>
            LET k == spawned[joining[t]] IN
            /\ pc[t] = "idle"
            /\ Terminal(k)
            /\ k.state = "Completed" => got[t] = [tag |-> "Ok", val |-> k.val]
            /\ k.state = "Failed" =>
                  /\ got[t].tag = "Err"
                  /\ \A v \in Values : got[t] # [tag |-> "Ok", val |-> v]

\* C4 witness: the handle of a task that panicked was awaited; the waiter
\* holds Err and is idle.
C4_Witness ==
    \E t \in Threads :
        /\ pc[t] = "idle"
        /\ joining[t] # 0
        /\ spawned[joining[t]].cause = "panic"
        /\ got[t].tag = "Err"

AllWorkersBusy == \A w \in Workers : w <= workers => onWorker[w] # 0

\* Wherever a thread may call spawn, the call can be taken at once.
C5_SpawnEnabled ==
    \A t \in Threads :
        (engine = "built" /\ pc[t] \in Callable /\ Len(spawned) < MaxSpawn)
            => \A b \in Bodies : ENABLED Spawn(t, b)

\* C5: in every state in which a thread may call spawn (whatever the workers
\* are doing and whatever is pending), the call can be taken for every task
\* body; and the step that takes it returns the handle to an idle caller
\* with the task still Scheduled, its result not yet available.
C5_SpawnNeverBlocks ==
    /\ []C5_SpawnEnabled
    /\ [][Len(spawned') = Len(spawned) + 1 =>
            /\ \A t \in Threads : pc[t] \in Callable => pc'[t] = "idle"
            /\ spawned'[Len(spawned')].state = "Scheduled"
            /\ spawned'[Len(spawned')].out = <<>>
            /\ handle'[Len(spawned')] = "held"]_vars

\* C5 witness: every worker is busy, an earlier task is being polled, and
\* the caller is back with the handle of a task that has not started.
C5_Witness ==
    \E t \in Threads :
        /\ engine = "built"
        /\ AllWorkersBusy
        /\ pc[t] = "idle"
        /\ Len(spawned) >= 2
        /\ spawned[Len(spawned)].state = "Scheduled"
        /\ handle[Len(spawned)] = "held"

Rank(st) == IF st = "Scheduled" THEN 0 ELSE IF st = "Running" THEN 1 ELSE 2

\* One task over one step: it does not move back, an ended task does not
\* change any more, and a stored output is never replaced.
TaskStepOk(k, k2) ==
    /\ Rank(k2.state) >= Rank(k.state)
    /\ Terminal(k) => k2 = k
    /\ k.out # <<>> => k2.out = k.out

\* C6: every task, spawned or of a batch, only moves forward along
\* Scheduled -> Running -> Completed | Failed; Completed and Failed are
\* absorbing (a failed task is not run again) and an outcome is produced at
\* most once.
C6_TasksOnlyMoveForward ==
    [][/\ \A h \in Handles : TaskStepOk(spawned[h], spawned'[h])
       /\ \A t \in Threads :
             (pc[t] = "parked" /\ pc'[t] \in {"parked", "returned"}) =>
                 \A i \in 1..Len(batch[t]) :
                     TaskStepOk(batch[t][i], batch'[t][i])]_vars

\* C6 witness: a spawned task has panicked and stays Failed although a
\* worker is free, beside a batch task that completed while a sibling waits.
C6_Witness ==
    /\ \E h \in Handles : spawned[h].cause = "panic"
    /\ \E w \in Workers : w <= workers /\ onWorker[w] = 0
    /\ \E t \in Threads :
          /\ pc[t] = "parked"
          /\ \E i \in 1..Len(batch[t]) : batch[t][i].state = "Completed"

C8_BatchRunsOnPoolWorkers ==
    \A t \in Threads : \A i \in 1..Len(batch[t]) :
        batch[t][i].state # "Scheduled" => batch[t][i].by = "worker"

\* C9: run_tasks on an empty Vec never blocks: no thread is ever parked on
\* an empty batch, and wherever a thread may call run_tasks, whatever runs
\* on the pool, the call on the empty Vec returns the empty Vec in that step.
C9_EmptyBatchReturnsAtOnce ==
    \A t \in Threads :
        /\ pc[t] = "parked" => batch[t] # <<>>
        /\ (engine = "built" /\ pc[t] \in Callable) =>
              ENABLED (/\ RunTasks(t, <<>>)
                       /\ pc'[t] = "returned"
                       /\ results'[t] = <<>>)

\* C9 witness: run_tasks returned for an empty batch while a worker is
\* polling a spawned task and another spawned task is suspended.
C9_Witness ==
    \E t \in Threads :
        /\ pc[t] = "returned"
        /\ batch[t] = <<>>
        /\ results[t] = <<>>
        /\ \E h \in Handles : OnSomeWorker(h)
        /\ \E h \in Handles :
              spawned[h].state = "Running" /\ ~OnSomeWorker(h) /\ ~spawned[h].woken

Busy == {w \in Workers : onWorker[w] # 0}

\* The pool as built, or nothing at all when construction failed.
C10_State ==
    /\ engine = "built" =>
          /\ requested >= 1
          /\ workers = requested
          /\ Cardinality(Busy) <= workers
          /\ Cardinality({onWorker[w] : w \in Busy}) = Cardinality(Busy)
          /\ \A w \in Busy : w <= workers
    /\ engine = "failed" =>
          /\ requested = 0
          /\ workers = 0
          /\ spawned = <<>>
          /\ \A t \in Threads :
                /\ pc[t] \in {"idle", "panicked"}
                /\ batch[t] = <<>> /\ results[t] = <<>> /\ joining[t] = 0
          /\ \E t \in Threads : pc[t] = "panicked"
    /\ engine = "unbuilt" => spawned = <<>> /\ workers = 0

\* C10: a built Engine has exactly the requested number of workers, at least
\* one, and that number never changes; at most that many spawned tasks are
\* on workers at any time; new(0) builds no Engine but unwinds the
\* constructing thread, and nothing is ever run or spawned then.
C10_FixedPoolOrNoEngine ==
    /\ []C10_State
    /\ [][engine # "unbuilt" =>
             engine' = engine /\ workers' = workers /\ requested' = requested]_vars

\* C10 witness: a pool of one worker is full while another spawned task
\* waits in the run queue.
C10_Witness ==
    /\ engine = "built"
    /\ workers = 1
    /\ onWorker[1] # 0
    /\ \E s \in Handles : Runnable(s)

\* C11: every construction by new_auto is the step new(k) takes for the
\* count k the host reports at that moment: the Engine is built with exactly
\* k workers; and a call that observes another count than an earlier call
\* did builds a pool of another size than that call built.
C11_NewAutoIsNewOfHostCount ==
    [][(engine = "unbuilt" /\ engine' # "unbuilt") =>
          /\ \E t \in Callers : New(t, host)
          /\ engine' = "built" /\ workers' = host /\ requested' = host
          /\ \A i \in 1..Len(dropped) :
                dropped[i].seen # host => workers' # dropped[i].size]_vars

\* C11 witness: a first new_auto call saw one processor and built one
\* worker; after the host changed a second call built two.
C11_Witness ==
    /\ dropped = <<[seen |-> 1, size |-> 1]>>
    /\ engine = "built"
    /\ host = 2
    /\ workers = 2

\* Element i of a batch comes to its end: it has no await point left, or
\* what it awaits comes from outside, or from a sibling that completes
\* (n bounds the length of the chain of siblings followed).
RECURSIVE Ends(_, _, _)
Ends(tasks, i, n) ==
    \/ tasks[i].state = "Completed"
    \/ tasks[i].waits = 0
    \/ /\ ~tasks[i].hangs
       /\ \/ tasks[i].dep = 0
          \/ /\ n > 0
             /\ tasks[i].dep \in 1..Len(tasks)
             /\ ~tasks[tasks[i].dep].fails
             /\ Ends(tasks, tasks[i].dep, n - 1)

AllEnd(tasks) == \A i \in 1..Len(tasks) : Ends(tasks, i, Len(tasks))

\* C12: while run_tasks is blocked every task of the batch has been run up
\* to its first await point, whatever the tasks before it wait for; and a
\* blocked call whose tasks all come to their end returns (or unwinds, when
\* one of them panics), also for an earlier task that waits for a later one
\* and for more tasks than workers.
C12_BatchTasksRunConcurrently ==
    /\ [](\A t \in Threads :
             pc[t] = "parked" =>
                 \A i \in 1..Len(batch[t]) : batch[t][i].state # "Scheduled")
    /\ \A t \in Threads :
          (pc[t] = "parked" /\ AllEnd(batch[t]))
              ~> (pc[t] \in {"returned", "panicked"})
    /\ \A t \in Threads :
          (/\ pc[t] = "parked" /\ AllEnd(batch[t])
           /\ \A i \in 1..Len(batch[t]) : ~batch[t][i].fails)
              ~> (pc[t] = "returned")

\* C12 witness: on a pool of one worker a batch of two tasks has returned
\* whose first task waited for the second.
C12_Witness ==
    \E t \in Threads :
        /\ pc[t] = "returned"
        /\ workers = 1
        /\ Len(batch[t]) = 2
        /\ batch[t][1].dep = 2
        /\ doneOrder[t] = <<2, 1>>
        /\ results[t] = <<1, 2>>

\* The step in which spawned task h ends by its own panic.
PanicsNow(h) ==
    /\ h \in Handles
    /\ ~Terminal(spawned[h])
    /\ spawned'[h].state = "Failed"
    /\ spawned'[h].cause = "panic"

\* C13: the step in which a spawned task panics changes that task only: the
\* other spawned tasks, the handles, every thread and its batch and the
\* Engine stay as they are, and the worker that polled it is free again. A
\* thread is only ever unwound by its own batch or by new(0). After such a
\* failure a free worker still takes any runnable task, spawn and run_tasks
\* can still be called, and every spawned task still comes to its end.
C13_SpawnFailureIsConfined ==
    /\ [][\A h \in 1..MaxSpawn :
              PanicsNow(h) =>
                  /\ \A g \in Handles \ {h} : spawned'[g] = spawned[g]
                  /\ UNCHANGED <<engineVars, handle, pc, batchVars, joining, got>>
                  /\ \A w \in Workers : onWorker'[w] # h
                  /\ \A w \in Workers : onWorker[w] # h => onWorker'[w] = onWorker[w]]_vars
    /\ [](\A t \in Threads :
             pc[t] = "panicked" => (failedAt[t] # 0 \/ engine = "failed"))
    /\ []((\E g \in Handles : spawned[g].cause = "panic") =>
             /\ \A w \in Workers : \A s \in Handles :
                    (w <= workers /\ onWorker[w] = 0 /\ Runnable(s))
                        => ENABLED StartPoll(w, s)
             /\ \A t \in Callers :
                    pc[t] \in Callable =>
                        /\ ENABLED RunTasks(t, <<>>)
                        /\ Len(spawned) < MaxSpawn
                               => \A b \in Bodies : ENABLED Spawn(t, b))
    /\ \A h \in 1..MaxSpawn :
          (h \in Handles /\ \E g \in Handles : spawned[g].cause = "panic")
              ~> (h \in Handles /\ Terminal(spawned[h]))

\* C13 witness: a spawned task panicked and its handle was awaited; a task
\* spawned after it completed, and a batch run after the failure returned
\* its result.
C13_Witness ==
    /\ Len(spawned) = 2
    /\ spawned[1].cause = "panic"
    /\ handle[1] = "consumed"
    /\ spawned[2].state = "Completed"
    /\ \E t \in Threads :
          pc[t] = "returned" /\ results[t] # <<>> /\ failedAt[t] = 0

\* What a thread sees of its own run_tasks call.
Own(t) == <<pc[t], batch[t], results[t], doneOrder[t], failedAt[t]>>

\* C14: with several threads inside run_tasks on one Engine, a call that
\* has returned holds the outputs of its own batch in its own input order;
\* every step of a call leaves every other thread's call as it is: a panic
\* unwinds the thread whose batch it was raised in and no other; and a
\* blocked call whose own tasks all complete returns, whatever became of the
\* other calls.
C14_ConcurrentCallsAreIndependent ==
    /\ [](\A t \in Threads :
             pc[t] = "returned" =>
                 /\ Len(results[t]) = Len(batch[t])
                 /\ \A i \in 1..Len(batch[t]) : results[t][i] = batch[t][i].val)
    /\ [][\A t, u \in Threads :
              (t # u /\ Own(t)' # Own(t)) => Own(u)' = Own(u)]_vars
    /\ [](\A t \in Threads :
             pc[t] = "panicked" => (failedAt[t] # 0 \/ engine = "failed"))
    /\ \A t \in Threads :
          (/\ pc[t] = "parked" /\ AllEnd(batch[t])
           /\ \A i \in 1..Len(batch[t]) : ~batch[t][i].fails)
              ~> (pc[t] = "returned")

\* C14 witness: one thread is back with its two outputs, the second of which
\* completed first, after the other thread was unwound by the panic of a
\* task of its own batch, a sibling of which had completed.
C14_Witness ==
    \E t, u \in Threads :
        /\ t # u
        /\ pc[t] = "returned"
        /\ doneOrder[t] = <<2, 1>>
        /\ results[t] = <<2, 1>>
        /\ pc[u] = "panicked"
        /\ failedAt[u] = 2
        /\ doneOrder[u] = <<1>>

\* A spawned task comes to its end: it has no await point left or what it
\* awaits occurs.
EndsAlone(k) == Terminal(k) \/ k.waits = 0 \/ ~k.hangs

InNestedCall(h) ==
    /\ h \in Handles
    /\ OnSomeWorker(h)
    /\ spawned[h].nests
    /\ Terminal(Poll(spawned[h]))

\* C16: a worker in a poll can always end it, also when every worker is in
\* a task that calls run_tasks; the poll in which a task calls run_tasks
\* ends with the task Failed, without output, in one step that blocks and
\* unwinds no thread and hands no Vec to anyone; no task that calls
\* run_tasks ever completes, and its handle yields the failure.
C16_NestedRunTasksFailsAtOnce ==
    /\ [](\A w \in Workers : onWorker[w] # 0 => ENABLED FinishPoll(w))
    /\ [][\A h \in 1..MaxSpawn :
              (InNestedCall(h) /\ spawned'[h] # spawned[h]) =>
                  /\ spawned'[h].state = "Failed"
                  /\ spawned'[h].out = <<>>
                  /\ \A w \in Workers : onWorker'[w] # h
                  /\ UNCHANGED <<pc, batchVars, got>>]_vars
    /\ [](\A h \in Handles :
             spawned[h].nests => (spawned[h].state # "Completed" /\ spawned[h].out = <<>>))
    /\ [](\A t \in Threads :
             /\ \A i \in 1..Len(batch[t]) : batch[t][i].nests => batch[t][i].out = <<>>
             /\ (joining[t] # 0 /\ pc[t] = "idle" /\ spawned[joining[t]].nests)
                    => got[t].tag = "Err")

\* C16 witness: on a pool of one worker a task that called run_tasks has
\* failed and its handle yielded the failure, and the worker is now in the
\* poll in which a second task calls run_tasks.
C16_Witness ==
    /\ workers = 1
    /\ Len(spawned) = 2
    /\ spawned[1].nests /\ spawned[1].state = "Failed"
    /\ handle[1] = "consumed"
    /\ \E t \in Threads : joining[t] = 1 /\ got[t].tag = "Err"
    /\ onWorker[1] = 2
    /\ InNestedCall(2)

====
